---- MODULE Spec2Model ----
(***************************************************************************)
(* Model of src/backend.py: the IVR conversational backend.                *)
(*                                                                         *)
(* The handlers are modelled as they run on one asyncio event loop: a      *)
(* handler runs without interruption up to its next suspending await       *)
(* (the asyncio.sleep inside play_tts_to_call, the asyncio.sleep(0.3)      *)
(* before the hangup), and asyncio.create_task schedules a coroutine that  *)
(* takes its first step later.  Awaiting nlu_parse, map_intent_to_action   *)
(* or hangup_call never suspends (LLM_ENABLED is False, cleanup_call is    *)
(* synchronous), so those calls are part of the step that makes them.      *)
(*                                                                         *)
(* The session dictionaries are objects: active_calls and call_history     *)
(* hold references to them, and a coroutine that looked a session up keeps *)
(* its reference across awaits.  heap[id] is the dictionary created for    *)
(* call id, active_calls the set of keys of the live map, call_history the *)
(* list of references appended by cleanup_call.                            *)
(*                                                                         *)
(* hangups[id] counts the invocations of hangup_call for call id, the      *)
(* place of the provider hang-up.                                          *)
(*                                                                         *)
(* Timestamps are abstracted to "utcnow" (set) against "None" (not set).   *)
(***************************************************************************)
EXTENDS Integers, Sequences, FiniteSets, Bags, TLC

VARIABLES active_calls, heap, call_history, ready, suspended, outcome, nreq,
          hangups

vars == <<active_calls, heap, call_history, ready, suspended, outcome, nreq, hangups>>

-----------------------------------------------------------------------------
(* Bounds of the exploration *)

\* requests (HTTP calls) accepted in one behaviour of Spec
MaxRequests == 3
\* requests accepted in one behaviour of SlotSpec
MaxSlotRequests == 9
\* coroutines alive at once on the event loop
MaxTasks == 3
\* transcripts one call takes
MaxTurns == 2
\* requests in a run of webhook deliveries
MaxHookRequests == 3
\* requests in a run that leaves the PNR collection
MaxLeaveRequests == 5

\* uuid4 values make_call_session can draw; "c0" is an id no call ever gets
CallIds == {"c1"}
RequestIds == CallIds \cup {"c0"}
Callers == {"+911234567890"}

\* values of the `digit` field a request can carry: the field is any string,
\* one DTMF symbol or several
SevenDigits == "1234567"
Digits == {"0", "1", "2", "3", "#", SevenDigits}

-----------------------------------------------------------------------------
(* Program constants *)

\* width of a PNR
PnrLength == 6

MainPrompt == "Welcome to Air India. Press 1 for Booking. Press 2 for Flight Status. Press 3 for Agent."
BookingPrompt == "Booking menu: Press 1 Domestic. Press 2 International. Press 0 Back."
FlightStatusPrompt == "Please speak or enter 6-digit PNR. Press 0 Back."

MENU_STRUCTURE ==
  [main |->
     [prompt |-> MainPrompt,
      options |->
        ("1" :> [action |-> "goto_menu", target |-> "booking", message |-> "Going to Booking."]) @@
        ("2" :> [action |-> "goto_menu", target |-> "flight_status", message |-> "Going to Flight Status."]) @@
        ("3" :> [action |-> "transfer_agent", message |-> "Transferring to agent."])],
   booking |->
     [prompt |-> BookingPrompt,
      options |->
        ("1" :> [action |-> "start_booking_domestic", message |-> "Domestic booking selected."]) @@
        ("2" :> [action |-> "start_booking_international", message |-> "International booking selected."]) @@
        ("0" :> [action |-> "goto_menu", target |-> "main", message |-> "Returning to main menu."])],
   flight_status |->
     [prompt |-> FlightStatusPrompt,
      options |->
        ("0" :> [action |-> "goto_menu", target |-> "main", message |-> "Returning to main menu."])]]

MenuKeys == DOMAIN MENU_STRUCTURE

INTENT_ACTION_MAP ==
  [booking_enquiry |-> [action |-> "goto_menu", target_menu |-> "booking",
                        response |-> "Sure - I can help with your booking. Domestic or international?"],
   flight_status |-> [action |-> "flight_status_check", target_menu |-> "flight_status",
                      response |-> "Please tell me your 6-digit PNR."],
   agent_transfer |-> [action |-> "transfer_agent", response |-> "I'll transfer you to an agent now."],
   greeting |-> [action |-> "none", response |-> "Hello! How can I help you today?"],
   end_call |-> [action |-> "end_call", response |-> "Thanks for calling. Goodbye!"],
   unknown |-> [action |-> "reprompt", response |-> "Sorry, I didn't understand. Could you please repeat?"]]

\* str.isdigit(): every character is a decimal digit, and there is one at least
isdigit(digit) ==
  digit \in {"0", "1", "2", "3", "4", "5", "6", "7", "8", "9", SevenDigits}

-----------------------------------------------------------------------------
(* Transcripts.  A text is a sequence of fragments; KeywordsIn gives, for   *)
(* each lower-cased fragment, the keywords of rule_based_nlu that occur in *)
(* it as substrings, and DigitRunsIn the maximal digit runs it holds.  No  *)
(* keyword and no digit run spans two fragments of the texts used here.    *)

TBook      == <<"I want to book">>
TFlight    == <<"I want to check my flight status">>
TPnr       == <<"my pnr is", "654321">>
TShortPnr  == <<"status of", "12345", "please">>
TAgent     == <<"agent">>
THello     == <<"Hello">>
TBye       == <<"goodbye">>
TNothing   == <<"nothing">>
TUnknown   == <<"what">>
TEmpty     == << >>

\* texts a speech request can carry
Transcripts == {TBook, TFlight, TPnr, TAgent, THello, TBye, TUnknown}
\* texts the classifier is exercised on
AllTranscripts == Transcripts \cup {TShortPnr, TNothing, TEmpty}

\* str.lower() on a fragment
lower(frag) ==
  CASE frag = "I want to book" -> "i want to book"
    [] frag = "I want to check my flight status" -> "i want to check my flight status"
    [] frag = "Hello" -> "hello"
    [] OTHER -> frag

\* the keywords x of rule_based_nlu with `x in frag`
KeywordsIn(frag) ==
  CASE frag = "i want to book" -> {"book"}
    [] frag = "i want to check my flight status" -> {"status", "flight status", "flight"}
    [] frag = "my pnr is" -> {"pnr"}
    [] frag = "status of" -> {"status"}
    [] frag = "agent" -> {"agent"}
    [] frag = "hello" -> {"hello"}
    [] frag = "goodbye" -> {"bye", "goodbye"}
    [] frag = "nothing" -> {"hi"}
    [] OTHER -> {}

\* re.findall(r"\d+", frag)
DigitRunsIn(frag) ==
  CASE frag = "654321" -> <<"654321">>
    [] frag = "12345" -> <<"12345">>
    [] OTHER -> << >>

RECURSIVE findall_digits(_)
findall_digits(t) ==
  IF t = << >> THEN << >> ELSE DigitRunsIn(Head(t)) \o findall_digits(Tail(t))

\* any(x in t for x in group)
any_in(group, t) == \E k \in 1..Len(t) : KeywordsIn(t[k]) \cap group # {}

\* the loop of lines 119-122: the first run of exactly six digits, else None
first_pnr(digits) ==
  IF \E k \in 1..Len(digits) : Len(digits[k]) = 6
  THEN digits[CHOOSE k \in 1..Len(digits) :
                /\ Len(digits[k]) = 6
                /\ \A j \in 1..(k - 1) : Len(digits[j]) # 6]
  ELSE "None"

\* confidence is kept in hundredths
rule_based_nlu(text) ==
  LET t == [k \in 1..Len(text) |-> lower(text[k])] IN
  IF any_in({"book", "booking", "reserve", "ticket"}, t)
  THEN [intent |-> "booking_enquiry", confidence |-> 90, entities |-> {}]
  ELSE IF any_in({"pnr", "status", "flight status", "where is my flight", "flight"}, t)
  THEN [intent |-> "flight_status", confidence |-> 85,
        entities |-> {<<"pnr", first_pnr(findall_digits(t))>>}]
  ELSE IF any_in({"agent", "human", "representative", "operator"}, t)
  THEN [intent |-> "agent_transfer", confidence |-> 95, entities |-> {}]
  ELSE IF any_in({"hi", "hello", "hey", "good morning", "good evening"}, t)
  THEN [intent |-> "greeting", confidence |-> 80, entities |-> {}]
  ELSE IF any_in({"bye", "goodbye", "thanks", "thank you"}, t)
  THEN [intent |-> "end_call", confidence |-> 95, entities |-> {}]
  ELSE [intent |-> "unknown", confidence |-> 40, entities |-> {}]

\* LLM_ENABLED is False: nlu_parse is rule_based_nlu and never suspends
nlu_parse(text) == rule_based_nlu(text)

\* dict.get(key) on an entities dictionary kept as a set of <<key, value>>
entity(entities, key) ==
  IF \E p \in entities : p[1] = key
  THEN (CHOOSE p \in entities : p[1] = key)[2]
  ELSE "None"

PnrConfirmedText(pnr) ==
  "PNR " \o pnr \o " is confirmed. Flight AI101 from Mumbai-Delhi is Confirmed."

map_intent_to_action(nlu_result, call_session) ==
  LET intent == nlu_result.intent
      mapping == IF intent \in DOMAIN INTENT_ACTION_MAP
                 THEN INTENT_ACTION_MAP[intent] ELSE INTENT_ACTION_MAP["unknown"]
  IN
  IF intent = "flight_status"
  THEN LET pnr == entity(nlu_result.entities, "pnr") IN
       IF pnr # "None" /\ pnr # ""
       THEN [action |-> "speak_and_hangup", response |-> PnrConfirmedText(pnr)]
       ELSE [action |-> "ask_for_pnr", response |-> mapping.response]
  ELSE IF intent = "booking_enquiry"
  THEN [action |-> "goto_menu", target_menu |-> "booking", response |-> mapping.response]
  ELSE IF intent = "agent_transfer"
  THEN [action |-> "transfer_agent", response |-> mapping.response]
  ELSE IF intent = "end_call"
  THEN [action |-> "speak_and_hangup", response |-> mapping.response]
  ELSE IF intent = "greeting"
  THEN [action |-> "speak", response |-> mapping.response]
  ELSE [action |-> "reprompt", response |-> mapping.response]


-----------------------------------------------------------------------------
(* State *)

\* heap slot of a call id make_call_session has not drawn yet
Unallocated == [call_id |-> "unallocated"]

\* the call ids make_call_session has drawn
Allocated == {i \in CallIds : heap[i] # Unallocated}

\* session["nlp_context"] before the first transcript: no "last_nlu" key
NoNlu == [intent |-> "absent", confidence |-> 0, entities |-> {}]

\* the dictionary make_call_session stores
NewSession(call_id, caller) ==
  [call_id |-> call_id,
   caller |-> caller,
   created_at |-> "utcnow",
   current_menu |-> "main",
   menu_path |-> <<"main">>,
   conv_mode |-> TRUE,
   history |-> << >>,
   slots |-> {},
   last_nlu |-> NoNlu,
   pnr_buffer |-> "",
   status |-> "active",
   ended_at |-> "None"]

\* a mutant: the webhook dispatches the playback coroutine in place of the handler
HandlerTask_as_playback(call_id, transcript) ==
  [kind |-> "play_tts_to_call", call_id |-> call_id, pc |-> "created",
   act |-> "", text |-> "", transcript |-> << >>]

\* coroutines on the event loop
HandlerTask(call_id, transcript) ==
  [kind |-> "handle_transcribed_text", call_id |-> call_id, pc |-> "created",
   act |-> "", text |-> "", transcript |-> transcript]
TtsTask(call_id, text) ==
  [kind |-> "play_tts_to_call", call_id |-> call_id, pc |-> "created",
   act |-> "", text |-> text, transcript |-> << >>]
HangupTask(call_id) ==
  [kind |-> "hangup_call", call_id |-> call_id, pc |-> "created",
   act |-> "", text |-> "", transcript |-> << >>]

\* the response (or the exception) of the handler that finished last
Reply(endpoint, call_id, code, message, detail) ==
  [endpoint |-> endpoint, call_id |-> call_id, code |-> code,
   message |-> message, detail |-> detail]

NoReply == Reply("none", "", 0, "", "")

Init ==
  /\ active_calls = {}
  /\ heap = [i \in CallIds |-> Unallocated]
  /\ call_history = << >>
  /\ ready = << >>
  /\ suspended = EmptyBag
  /\ outcome = NoReply
  /\ nreq = 0
  /\ hangups = [i \in CallIds |-> 0]

\* one more HTTP request is accepted, up to a budget
Request(budget) == /\ nreq < budget
                   /\ nreq' = nreq + 1

\* the event loop: `ready` holds the created tasks, which start in creation
\* order; `suspended` holds the coroutines waiting inside an await, which
\* resume in any order
Suspended == BagToSet(suspended)
Suspend(task) == suspended (+) SetToBag({task})
Resume(task) == suspended (-) SetToBag({task})

\* the next created task to run is of this kind
FirstRun(kind) == ready # << >> /\ Head(ready).kind = kind

\* the number of coroutines that have not returned stays within MaxTasks
TasksBounded == Len(ready') + BagCardinality(suspended') <= MaxTasks

-----------------------------------------------------------------------------
(* Session store *)

\* a mutant: the lookup goes by every session ever created, ended ones included
session_found_any(call_id) == call_id \in CallIds /\ heap[call_id] # Unallocated

\* active_calls.get(call_id) is a session / call_id in active_calls
session_found(call_id) == call_id \in active_calls

make_call_session(call_id, caller) ==
  /\ active_calls' = active_calls \cup {call_id}
  /\ heap' = [heap EXCEPT ![call_id] = NewSession(call_id, caller)]

\* a mutant: the record is appended to the log whether or not the pop found it
cleanup_call_twice(call_id) ==
  IF call_id \in CallIds /\ heap[call_id] # Unallocated
  THEN /\ active_calls' = active_calls \ {call_id}
       /\ heap' = [heap EXCEPT ![call_id].ended_at = "utcnow"]
       /\ call_history' = Append(call_history, call_id)
  ELSE UNCHANGED <<active_calls, heap, call_history>>

cleanup_call(call_id) ==
  IF call_id \in active_calls
  THEN /\ active_calls' = active_calls \ {call_id}
       /\ heap' = [heap EXCEPT ![call_id].ended_at = "utcnow"]
       /\ call_history' = Append(call_history, call_id)
  ELSE UNCHANGED <<active_calls, heap, call_history>>

\* hangup_call: "[CALL] Hanging up" and the provider hang-up (a placeholder),
\* counted in hangups, then cleanup_call
hangup_call(call_id) ==
  /\ hangups' = [hangups EXCEPT ![call_id] = @ + 1]
  /\ cleanup_call(call_id)

\* POST /ivr/start
start_call(call_id, caller) ==
  /\ UNCHANGED hangups
  /\ heap[call_id] = Unallocated
  /\ make_call_session(call_id, caller)
  /\ outcome' = Reply("start_call", call_id, 200, "initial_prompt", MENU_STRUCTURE["main"].prompt)
  /\ UNCHANGED <<call_history, ready, suspended>>

\* POST /ivr/end
end_call(call_id) ==
  /\ UNCHANGED hangups
  /\ cleanup_call(call_id)
  /\ outcome' = Reply("end_call", call_id, 200, "call ended", "")
  /\ UNCHANGED <<ready, suspended>>


-----------------------------------------------------------------------------
(* POST /ivr/dtmf *)

\* line 361: inside flight_status a numeric symbol is a PNR digit
collects_digit(menu, digit) == menu = "flight_status" /\ isdigit(digit)

\* a mutant: the width test is off by one
pnr_complete_early(buffer) == Len(buffer) >= PnrLength - 1

\* line 363: the buffer holds a whole PNR
pnr_complete(buffer) == Len(buffer) = PnrLength

\* line 365: the buffer after a whole PNR was read
cleared_buffer == ""

\* line 367
PnrLookupText(pnr) == "PNR " \o pnr \o " is confirmed. Flight AI101 is on time."

\* lines 374-375
DigitsToGoText(buffer) ==
  "Received digit. " \o ToString(PnrLength - Len(buffer)) \o " digits to go."

\* line 378: MENU_STRUCTURE.get(menu, {}).get("options", {})
menu_options(menu) ==
  IF menu \in MenuKeys THEN MENU_STRUCTURE[menu].options ELSE << >>

\* a mutant: the menu changes, the path is not extended
dtmf_goto_menu_no_path(session, target) == [session EXCEPT !.current_menu = target]

\* lines 383-384
dtmf_goto_menu(session, target) ==
  [session EXCEPT !.current_menu = target,
                  !.menu_path = Append(session.menu_path, target)]

dtmf_endpoint(call_id, digit) ==
  /\ UNCHANGED hangups
  /\ UNCHANGED <<active_calls, call_history, suspended>>
  /\ IF ~session_found(call_id)
     THEN /\ outcome' = Reply("dtmf_endpoint", call_id, 404, "", "Call not found")
          /\ UNCHANGED <<heap, ready>>
     ELSE
       LET call == heap[call_id]
           menu == call.current_menu
       IN
       IF collects_digit(menu, digit)
       THEN
         LET buffer == call.pnr_buffer \o digit IN
         IF pnr_complete(buffer)
         THEN /\ heap' = [heap EXCEPT ![call_id].pnr_buffer = cleared_buffer]
              /\ ready' = ready \o <<TtsTask(call_id, PnrLookupText(buffer)),
                                     HangupTask(call_id)>>
              /\ outcome' = Reply("dtmf_endpoint", call_id, 200,
                                  PnrLookupText(buffer), "pnr_lookup")
         ELSE /\ heap' = [heap EXCEPT ![call_id].pnr_buffer = buffer]
              /\ outcome' = Reply("dtmf_endpoint", call_id, 200, DigitsToGoText(buffer), "")
              /\ UNCHANGED ready
       ELSE
         LET options == menu_options(menu) IN
         IF digit \notin DOMAIN options
         THEN /\ outcome' = Reply("dtmf_endpoint", call_id, 200,
                                  "Invalid choice, please try again.", "")
              /\ UNCHANGED <<heap, ready>>
         ELSE
           LET opt == options[digit] IN
           IF opt.action = "goto_menu"
           THEN /\ heap' = [heap EXCEPT ![call_id] = dtmf_goto_menu(call, opt.target)]
                /\ ready' = Append(ready, TtsTask(call_id, MENU_STRUCTURE[opt.target].prompt))
                /\ outcome' = Reply("dtmf_endpoint", call_id, 200,
                                    MENU_STRUCTURE[opt.target].prompt, "")
           ELSE IF opt.action = "transfer_agent"
           THEN /\ ready' = Append(ready, TtsTask(call_id, opt.message))
                /\ heap' = [heap EXCEPT ![call_id].status = "transferring"]
                /\ outcome' = Reply("dtmf_endpoint", call_id, 200, "transfer initiated", "")
           ELSE IF opt.action = "end_call"
           THEN /\ ready' = ready \o <<TtsTask(call_id, opt.message), HangupTask(call_id)>>
                /\ outcome' = Reply("dtmf_endpoint", call_id, 200, "call ended", "")
                /\ UNCHANGED heap
           ELSE /\ outcome' = Reply("dtmf_endpoint", call_id, 200, "Unhandled DTMF action", "")
                /\ UNCHANGED <<heap, ready>>
  /\ TasksBounded

\* a play_tts_to_call task prints the text, then sleeps for its duration
tts_start ==
  /\ UNCHANGED hangups
  /\ FirstRun("play_tts_to_call")
  /\ ready' = Tail(ready)
  /\ suspended' = Suspend([Head(ready) EXCEPT !.pc = "sleep"])
  /\ UNCHANGED <<active_calls, heap, call_history, outcome, nreq>>

tts_done(task) ==
  /\ UNCHANGED hangups
  /\ task \in Suspended
  /\ task.kind = "play_tts_to_call"
  /\ suspended' = Resume(task)
  /\ UNCHANGED <<active_calls, heap, call_history, ready, outcome, nreq>>

\* a hangup_call task created by dtmf_endpoint
hangup_task ==
  /\ FirstRun("hangup_call")
  /\ hangup_call(Head(ready).call_id)
  /\ ready' = Tail(ready)
  /\ UNCHANGED <<suspended, outcome, nreq>>


-----------------------------------------------------------------------------
(* handle_transcribed_text *)

\* a mutant: the classification is kept, the turn is not recorded
store_transcript_unrecorded(session, transcript) ==
  [session EXCEPT !.last_nlu = nlu_parse(transcript)]

\* lines 229-233: the turn is stored, the classification kept as last_nlu
store_transcript(session, transcript) ==
  [session EXCEPT !.history = Append(session.history, [from |-> "user", text |-> transcript]),
                  !.last_nlu = nlu_parse(transcript)]

\* lines 245-246
speech_goto_menu(session, target) ==
  [session EXCEPT !.current_menu = target,
                  !.menu_path = Append(session.menu_path, target)]

\* a mutant: the node is misspelt, with the hyphen of the intent's display name
ask_for_pnr_misnamed(session) == [session EXCEPT !.current_menu = "flight-status"]

\* a mutant: the session stays where it is
ask_for_pnr_stays(session) == session

\* line 253
ask_for_pnr(session) == [session EXCEPT !.current_menu = "flight_status"]

\* the state change an action makes before its text is played
execute_action(session, action) ==
  IF action.action = "goto_menu" THEN speech_goto_menu(session, action.target_menu)
  ELSE IF action.action = "ask_for_pnr" THEN ask_for_pnr(session)
  ELSE session

\* the text handed to play_tts_to_call
spoken_text(action) ==
  IF action.action = "goto_menu" /\ action.target_menu \in MenuKeys
  THEN MENU_STRUCTURE[action.target_menu].prompt
  ELSE action.response

\* the "action" value of the dictionary the handler returns
returned_action(act) ==
  CASE act = "speak_and_hangup" -> "hangup"
    [] act = "transfer_agent" -> "transfer"
    [] OTHER -> act

\* lines 228-262: from the lookup to the suspension inside play_tts_to_call.
\* The session was found; the coroutine keeps its reference heap[call_id].
handler_runs(call_id, transcript) ==
  LET stored == store_transcript(heap[call_id], transcript)
      action == map_intent_to_action(stored.last_nlu, stored)
  IN
  [session |-> execute_action(stored, action),
   task |-> [kind |-> "handle_transcribed_text", call_id |-> call_id, pc |-> "play_tts",
             act |-> action.action, text |-> spoken_text(action), transcript |-> transcript]]

\* POST /ivr/sim_speech
simulate_speech(call_id, transcript) ==
  /\ UNCHANGED hangups
  /\ UNCHANGED <<active_calls, call_history, ready>>
  /\ IF ~session_found(call_id)
     THEN /\ outcome' = Reply("simulate_speech", call_id, 404, "", "Call not active")
          /\ UNCHANGED <<heap, suspended>>
     ELSE LET run == handler_runs(call_id, transcript) IN
          /\ heap' = [heap EXCEPT ![call_id] = run.session]
          /\ suspended' = Suspend(run.task)
          /\ UNCHANGED outcome
  /\ TasksBounded
  /\ \A i \in Allocated : Len(heap'[i].history) <= MaxTurns

\* POST /ivr/live_stt: the transcript is what transcribe_speech recognised
live_stt(call_id, transcript) ==
  /\ UNCHANGED hangups
  /\ UNCHANGED <<active_calls, call_history, ready>>
  /\ IF ~session_found(call_id)
     THEN /\ outcome' = Reply("live_stt", call_id, 404, "", "Call not found")
          /\ UNCHANGED <<heap, suspended>>
     ELSE IF transcript = TEmpty
     THEN /\ outcome' = Reply("live_stt", call_id, 200, "no_speech_detected", "")
          /\ UNCHANGED <<heap, suspended>>
     ELSE LET run == handler_runs(call_id, transcript) IN
          /\ heap' = [heap EXCEPT ![call_id] = run.session]
          /\ suspended' = Suspend(run.task)
          /\ UNCHANGED outcome
  /\ TasksBounded
  /\ \A i \in Allocated : Len(heap'[i].history) <= MaxTurns

\* first step of a handler dispatched by stt_callback (lines 224-226, then as above)
handler_start ==
  /\ UNCHANGED hangups
  /\ FirstRun("handle_transcribed_text")
  /\ ready' = Tail(ready)
  /\ UNCHANGED <<active_calls, call_history, nreq>>
  /\ LET task == Head(ready) IN
     IF ~session_found(task.call_id)
     THEN /\ outcome' = Reply("handle_transcribed_text", task.call_id, 500,
                              "ValueError", "Unknown call_id")
          /\ UNCHANGED <<heap, suspended>>
     ELSE LET run == handler_runs(task.call_id, task.transcript) IN
          /\ heap' = [heap EXCEPT ![task.call_id] = run.session]
          /\ suspended' = Suspend(run.task)
          /\ UNCHANGED outcome

\* the handler resumes when play_tts_to_call returns (lines 249-276)
handler_after_tts(task) ==
  /\ UNCHANGED hangups
  /\ task \in Suspended
  /\ task.kind = "handle_transcribed_text"
  /\ task.pc = "play_tts"
  /\ UNCHANGED <<active_calls, call_history, ready, nreq>>
  /\ IF task.act = "speak_and_hangup"
     THEN /\ suspended' = Resume(task) (+) SetToBag({[task EXCEPT !.pc = "sleep"]})
          /\ UNCHANGED <<heap, outcome>>
     ELSE /\ heap' = IF task.act = "transfer_agent"
                     THEN [heap EXCEPT ![task.call_id].status = "transferring"]
                     ELSE heap
          /\ suspended' = Resume(task)
          /\ outcome' = Reply("handle_transcribed_text", task.call_id, 200,
                              returned_action(task.act), task.text)

\* lines 263-265: asyncio.sleep(0.3) is over, hang up and return
handler_hangup(task) ==
  /\ task \in Suspended
  /\ task.kind = "handle_transcribed_text"
  /\ task.pc = "sleep"
  /\ hangup_call(task.call_id)
  /\ suspended' = Resume(task)
  /\ outcome' = Reply("handle_transcribed_text", task.call_id, 200,
                      returned_action(task.act), task.text)
  /\ UNCHANGED <<ready, nreq>>


-----------------------------------------------------------------------------
(* POST /ivr/stt_callback *)

\* None and "" are both false for `not call_id` / `not transcript`
NoCallId == ""
NoText == << >>

\* provider payloads: is_dict says whether the JSON body is an object
AzurePayload(call_id, text) ==
  [is_dict |-> TRUE,
   fields |-> [callConnectionId |-> call_id, recognizeResult |-> [text |-> text]]]
TwilioPayload(call_id, text) ==
  [is_dict |-> TRUE, fields |-> [CallSid |-> call_id, SpeechResult |-> text]]
GenericPayload(text) == [is_dict |-> TRUE, fields |-> [transcript |-> text]]
NoTextPayload(call_id) == [is_dict |-> TRUE, fields |-> [CallSid |-> call_id]]
EmptyPayload == [is_dict |-> TRUE, fields |-> << >>]
ListPayload == [is_dict |-> FALSE, fields |-> << >>]

\* texts a webhook payload can carry
WebhookTranscripts == {TFlight, TPnr, TBye}

Payloads ==
  {AzurePayload(i, t) : i \in RequestIds, t \in WebhookTranscripts \cup {NoText}}
  \cup {TwilioPayload(i, t) : i \in RequestIds, t \in WebhookTranscripts}
  \cup {GenericPayload(t) : t \in WebhookTranscripts}
  \cup {NoTextPayload(i) : i \in RequestIds}
  \cup {EmptyPayload, ListPayload}

\* payload.get(key) for a text-valued key
get_text(fields, key) == IF key \in DOMAIN fields THEN fields[key] ELSE NoText

\* lines 425-439: the {call_id, transcript} read off the payload
parse_payload(payload) ==
  LET f == payload.fields
      azure == payload.is_dict /\ {"callConnectionId", "recognizeResult"} \subseteq DOMAIN f
      id1 == IF azure THEN f.callConnectionId ELSE NoCallId
      tr1 == IF azure THEN get_text(f.recognizeResult, "text") ELSE NoText
      twilio == /\ payload.is_dict
                /\ tr1 = NoText
                /\ {"CallSid", "SpeechResult"} \subseteq DOMAIN f
      id2 == IF twilio THEN f.CallSid ELSE id1
      tr2 == IF twilio THEN f.SpeechResult ELSE tr1
      tr3 == IF payload.is_dict /\ tr2 = NoText
             THEN IF get_text(f, "transcript") # NoText THEN get_text(f, "transcript")
                  ELSE IF get_text(f, "text") # NoText THEN get_text(f, "text")
                  ELSE get_text(f, "recognizedText")
             ELSE tr2
  IN [call_id |-> id2, transcript |-> tr3]

\* a mutant: the payload is refused only when both parts are missing
unparsed_both(parsed) == parsed.call_id = NoCallId /\ parsed.transcript = NoText

\* line 441: `not call_id or not transcript`
unparsed(parsed) == parsed.call_id = NoCallId \/ parsed.transcript = NoText

stt_callback(payload) ==
  LET parsed == parse_payload(payload) IN
  /\ UNCHANGED hangups
  /\ UNCHANGED <<active_calls, heap, call_history, suspended>>
  /\ IF unparsed(parsed)
     THEN \* list(payload.keys()) raises AttributeError when the body is no object
          /\ outcome' = IF payload.is_dict
                        THEN Reply("stt_callback", parsed.call_id, 400, "",
                                   "Could not parse STT payload")
                        ELSE Reply("stt_callback", parsed.call_id, 500, "AttributeError", "")
          /\ UNCHANGED ready
     ELSE IF ~session_found(parsed.call_id)
     THEN /\ outcome' = Reply("stt_callback", parsed.call_id, 404, "", "Call session not found")
          /\ UNCHANGED ready
     ELSE /\ ready' = Append(ready, HandlerTask(parsed.call_id, parsed.transcript))
          /\ outcome' = Reply("stt_callback", parsed.call_id, 200, "accepted", "")
  /\ TasksBounded

-----------------------------------------------------------------------------

\* every endpoint, every text, every interleaving of the coroutines
Next ==
  \/ Request(MaxRequests) /\ \E i \in CallIds, c \in Callers : start_call(i, c)
  \/ Request(MaxRequests) /\ \E i \in RequestIds : end_call(i)
  \/ Request(MaxRequests) /\ \E i \in RequestIds, d \in Digits : dtmf_endpoint(i, d)
  \/ Request(MaxRequests) /\ \E i \in RequestIds, t \in Transcripts : simulate_speech(i, t)
  \/ Request(MaxRequests) /\ \E i \in RequestIds, t \in {TEmpty, TBook} : live_stt(i, t)
  \/ Request(MaxRequests) /\ \E p \in Payloads : stt_callback(p)
  \/ handler_start
  \/ \E task \in Suspended : handler_after_tts(task)
  \/ \E task \in Suspended : handler_hangup(task)
  \/ tts_start
  \/ \E task \in Suspended : tts_done(task)

Spec == Init /\ [][Next]_vars

\* long runs of key presses on one call, against speech that asks for the PNR
\* or gives it
SlotDigits == {"1", "2"}
SlotTranscripts == {TFlight, TPnr}

SlotNext ==
  \/ Request(MaxSlotRequests) /\ \E i \in CallIds, c \in Callers : start_call(i, c)
  \/ Request(MaxSlotRequests) /\ \E i \in CallIds : end_call(i)
  \/ Request(MaxSlotRequests) /\ \E i \in CallIds, d \in SlotDigits : dtmf_endpoint(i, d)
  \/ Request(MaxSlotRequests) /\ \E i \in CallIds, t \in SlotTranscripts : simulate_speech(i, t)
  \/ \E task \in Suspended : handler_after_tts(task)
  \/ \E task \in Suspended : handler_hangup(task)
  \/ tts_start
  \/ \E task \in Suspended : tts_done(task)
  \/ hangup_task

SlotSpec == Init /\ [][SlotNext]_vars

-----------------------------------------------------------------------------
(* Properties *)

Logged == {call_history[k] : k \in 1..Len(call_history)}
Last(seq) == seq[Len(seq)]

\* the payloads from which stt_callback reads call id i and a transcript
PayloadsNaming ==
  [i \in RequestIds |->
     {p \in Payloads : /\ parse_payload(p).call_id = i
                       /\ parse_payload(p).transcript # NoText}]

\* a digit event for call id i (an HTTP request)
DigitEvent(i) == nreq' # nreq /\ \E d \in Digits : dtmf_endpoint(i, d)

\* a transcript event for call id i: simulated or recognised speech, a webhook
\* payload that names i, or the first step of a handler the webhook dispatched
TranscriptEvent(i) ==
  \/ /\ nreq' # nreq
     /\ \/ \E t \in Transcripts : simulate_speech(i, t)
        \/ \E t \in {TEmpty, TBook} : live_stt(i, t)
        \/ \E p \in PayloadsNaming[i] : stt_callback(p)
  \/ ready # << >> /\ Head(ready).call_id = i /\ handler_start

\* the reply is the refusal of an unknown call id: HTTP 404, or the ValueError
\* of a handler running in the background
SessionNotFound(reply, i) ==
  /\ reply.call_id = i
  /\ \/ reply.code = 404
     \/ reply.endpoint = "handle_transcribed_text" /\ reply.message = "ValueError"

\* C1: a digit or transcript event for a call id that is not in the live store
\* (never created, or already terminated) is answered with the not-found
\* refusal and leaves the live store, every session and the history log as
\* they were.
C1_UnknownIdRefused ==
  [][\A i \in RequestIds :
       (i \notin active_calls /\ (DigitEvent(i) \/ TranscriptEvent(i)))
       => /\ SessionNotFound(outcome', i)
          /\ UNCHANGED <<active_calls, heap, call_history>>]_vars

\* a key press on a call that was ended before is refused
C1_Witness ==
  /\ outcome.endpoint = "dtmf_endpoint"
  /\ outcome.code = 404
  /\ call_history = <<outcome.call_id>>
  /\ outcome.call_id \notin active_calls

\* C2: status changes only from active to transferring or ended, and once a
\* session is transferring or ended no later step changes its status, its
\* current_menu or its pnr_buffer.
C2_StatusSticky ==
  [][\A i \in Allocated :
       /\ heap'[i].status # heap[i].status
          => heap[i].status = "active" /\ heap'[i].status \in {"transferring", "ended"}
       /\ heap[i].status \in {"transferring", "ended"}
          => /\ heap'[i].status = heap[i].status
             /\ heap'[i].current_menu = heap[i].current_menu
             /\ heap'[i].pnr_buffer = heap[i].pnr_buffer]_vars

\* C3: menu_path never gets shorter and its last element is current_menu.
C3_PathEndsAtCurrentMenu ==
  [][\A i \in Allocated :
       /\ Len(heap'[i].menu_path) >= Len(heap[i].menu_path)
       /\ Last(heap'[i].menu_path) = heap'[i].current_menu]_vars


\* a handler that found its session and has not returned yet
InFlight(task) ==
  /\ task.kind = "handle_transcribed_text"
  /\ task.pc \in {"play_tts", "sleep"}

\* C4: between the session lookup of a handler and its return, only that
\* handler's own steps change the session's current_menu, pnr_buffer, status
\* or membership in the live store.
C4_EventsSerialized ==
  [][\A task \in Suspended :
       InFlight(task) =>
         LET i == task.call_id IN
         \/ handler_after_tts(task)
         \/ handler_hangup(task)
         \/ /\ heap'[i].current_menu = heap[i].current_menu
            /\ heap'[i].pnr_buffer = heap[i].pnr_buffer
            /\ heap'[i].status = heap[i].status
            /\ (i \in active_calls') = (i \in active_calls)]_vars

\* C5: no call id is in the live store and in the history log at once, and no
\* call id is in the log twice.
C5_TerminatedOnce ==
  /\ active_calls \cap Logged = {}
  /\ \A j, k \in 1..Len(call_history) : call_history[j] = call_history[k] => j = k

\* a hangup is still to run for a call that is already in the log
C5_Witness ==
  \/ \E k \in 1..Len(ready) :
       ready[k].call_id \in Logged /\ ready[k].kind = "hangup_call"
  \/ \E task \in Suspended :
       /\ task.call_id \in Logged
       /\ task.kind = "handle_transcribed_text"
       /\ task.pc = "sleep"

\* C6: every record of the history log has status ended and an ended_at.
C6_LoggedRecordsEnded ==
  \A k \in 1..Len(call_history) :
    /\ heap[call_history[k]].status = "ended"
    /\ heap[call_history[k]].ended_at # "None"


C8_BufferBounded ==
  \A i \in Allocated : Len(heap[i].pnr_buffer) <= PnrLength

JustSuspended ==
  {task \in BagToSet(suspended') : CopiesIn(task, suspended') > CopiesIn(task, suspended)}

\* what the first step of a handler on session i must have done, task being
\* the coroutine it leaves suspended, when the text was classified flight_status
FlightStatusResolved(i, task) ==
  heap'[i].last_nlu.intent = "flight_status"
  => LET pnr == entity(heap'[i].last_nlu.entities, "pnr") IN
     IF pnr = "None"
     THEN /\ task.act = "ask_for_pnr"
          /\ heap'[i].current_menu = "flight_status"
          /\ i \in active_calls'
          /\ call_history' = call_history
     ELSE /\ Len(pnr) = PnrLength
          /\ task.act = "speak_and_hangup"
          /\ task.text = "PNR " \o pnr
               \o " is confirmed. Flight AI101 from Mumbai-Delhi is Confirmed."

\* C10: on an active session a transcript classified flight_status without a
\* pnr resolves to ask_for_pnr and puts the session at flight_status without
\* ending it, also when that handler returns; one classified flight_status
\* with a six-digit pnr resolves to speak_and_hangup, and when that handler
\* returns the session has left the live store and is in the history log.
C10_AskThenComplete ==
  [][/\ \A i \in CallIds :
          (/\ i \in active_calls
           /\ heap[i].status = "active"
           /\ BagCardinality(suspended') = BagCardinality(suspended) + 1
           /\ \/ \E t \in Transcripts : simulate_speech(i, t) \/ live_stt(i, t)
              \/ ready # << >> /\ Head(ready).call_id = i /\ handler_start)
          => /\ JustSuspended # {}
             /\ \A task \in JustSuspended : FlightStatusResolved(i, task)
     /\ \A task \in Suspended :
          /\ (task.act = "ask_for_pnr" /\ handler_after_tts(task))
             => /\ UNCHANGED <<active_calls, call_history>>
                /\ outcome'.message = "ask_for_pnr"
          /\ (task.act = "speak_and_hangup" /\ handler_hangup(task))
             => /\ task.call_id \notin active_calls'
                /\ task.call_id \in {call_history'[j] : j \in 1..Len(call_history')}
                /\ outcome'.message = "hangup"]_vars

\* the call was asked for its PNR, gave it in the next utterance and was ended
C10_Witness ==
  /\ outcome.endpoint = "handle_transcribed_text"
  /\ outcome.message = "hangup"
  /\ call_history = <<outcome.call_id>>
  /\ heap[outcome.call_id].current_menu = "flight_status"
  /\ heap[outcome.call_id].history =
       <<[from |-> "user", text |-> TFlight], [from |-> "user", text |-> TPnr]>>

\* seq1 is an initial part of seq2
IsPrefix(seq1, seq2) ==
  /\ Len(seq1) <= Len(seq2)
  /\ \A k \in 1..Len(seq1) : seq1[k] = seq2[k]

\* the turn a transcript is recorded as
Turn(transcript) == [from |-> "user", text |-> transcript]

\* C11: every transcript handled on a live session is appended to the end of
\* that session's turn history and no step ever drops or reorders a turn; when
\* the handler of a transcript classified end_call returns, the session has
\* left the live store and its record in the history log holds the end-call
\* turn and an ended_at.
C11_GoodbyeTerminatesWithTurns ==
  [][/\ \A i \in CallIds :
          /\ heap[i] # Unallocated => IsPrefix(heap[i].history, heap'[i].history)
          /\ \A t \in Transcripts :
               (/\ i \in active_calls
                /\ BagCardinality(suspended') = BagCardinality(suspended) + 1
                /\ (simulate_speech(i, t) \/ live_stt(i, t)))
               => heap'[i].history = Append(heap[i].history, Turn(t))
          /\ (/\ ready # << >>
              /\ Head(ready).call_id = i
              /\ i \in active_calls
              /\ handler_start)
             => heap'[i].history = Append(heap[i].history, Turn(Head(ready).transcript))
     /\ \A task \in Suspended :
          (/\ rule_based_nlu(task.transcript).intent = "end_call"
           /\ handler_hangup(task))
          => LET i == task.call_id IN
             /\ i \notin active_calls'
             /\ \E k \in 1..Len(call_history') : call_history'[k] = i
             /\ heap'[i].ended_at # "None"
             /\ \E k \in 1..Len(heap'[i].history) : heap'[i].history[k] = Turn(task.transcript)]_vars

\* a greeting, then a goodbye: the call is in the log with both turns in order
C11_Witness ==
  /\ outcome.endpoint = "handle_transcribed_text"
  /\ outcome.message = "hangup"
  /\ call_history = <<outcome.call_id>>
  /\ heap[outcome.call_id].ended_at # "None"
  /\ heap[outcome.call_id].history = <<Turn(THello), Turn(TBye)>>

\* C12: the current_menu of every live session is a key of MENU_STRUCTURE, and
\* every goto_menu target of the catalog is one of its keys.
C12_CurrentMenuInCatalog ==
  /\ \A i \in active_calls : heap[i].current_menu \in MenuKeys
  /\ \A m \in MenuKeys : \A d \in DOMAIN MENU_STRUCTURE[m].options :
       MENU_STRUCTURE[m].options[d].action = "goto_menu"
       => MENU_STRUCTURE[m].options[d].target \in MenuKeys

\* a live session was moved by speech alone, to the node that asks for the PNR
C12_Witness ==
  \E i \in active_calls :
    /\ heap[i].current_menu = "flight_status"
    /\ heap[i].menu_path = <<"main">>
    /\ Len(heap[i].history) = 1

\* the payload names a call: one of the id fields is there and not empty
NamesCall(payload) ==
  /\ payload.is_dict
  /\ \E key \in {"callConnectionId", "CallSid"} \cap DOMAIN payload.fields :
       payload.fields[key] # NoCallId

\* the payload carries text: one of the text fields is there and not empty
CarriesText(payload) ==
  /\ payload.is_dict
  /\ \/ /\ "recognizeResult" \in DOMAIN payload.fields
        /\ get_text(payload.fields.recognizeResult, "text") # NoText
     \/ \E key \in {"SpeechResult", "transcript", "text", "recognizedText"} :
          get_text(payload.fields, key) # NoText

C14_LoggedRecordFrozen ==
  [][\A i \in Logged : heap'[i] = heap[i]]_vars

\* C15: when a handler dispatches the playback of a goto_menu, ask_for_pnr or
\* transfer_agent action, the session already has the new current_menu,
\* menu_path or status.
C15_MutationBeforePlayback ==
  [][/\ \A task \in JustSuspended :
          (task.kind = "handle_transcribed_text" /\ task.pc = "play_tts")
          => LET session == heap'[task.call_id] IN
             /\ task.act = "goto_menu"
                => /\ session.current_menu = "booking"
                   /\ Last(session.menu_path) = "booking"
             /\ task.act = "ask_for_pnr" => session.current_menu = "flight_status"
             /\ task.act = "transfer_agent" => session.status = "transferring"
     /\ \A i \in CallIds, d \in Digits :
          (/\ i \in active_calls
           /\ ~collects_digit(heap[i].current_menu, d)
           /\ d \in DOMAIN menu_options(heap[i].current_menu)
           /\ outcome'.endpoint = "dtmf_endpoint"
           /\ dtmf_endpoint(i, d))
          => LET opt == menu_options(heap[i].current_menu)[d] IN
             /\ opt.action = "goto_menu"
                => /\ heap'[i].current_menu = opt.target
                   /\ Last(heap'[i].menu_path) = opt.target
             /\ opt.action = "transfer_agent" => heap'[i].status = "transferring"]_vars

\* C16: hangup_call is invoked at most once for a call.
C16_OneHangup ==
  \A i \in CallIds : hangups[i] <= 1

\* what a playback says when it is not the last word of a call
MenuSpeech == {MENU_STRUCTURE[m].prompt : m \in MenuKeys} \cup {"Transferring to agent."}

\* a playback of a final message for call i has been created and has not
\* returned yet
FinalSpeechPending(i) ==
  \/ \E k \in 1..Len(ready) :
       /\ ready[k].kind = "play_tts_to_call"
       /\ ready[k].call_id = i
       /\ ready[k].text \notin MenuSpeech
  \/ \E task \in Suspended :
       /\ task.kind = "play_tts_to_call"
       /\ task.call_id = i
       /\ task.text \notin MenuSpeech

\* C17: when a hangup that follows a final message removes the session from
\* the live store, the playback of that message has returned.
C17_SpeechBeforeHangup ==
  [][/\ (hangup_task /\ Head(ready).call_id \in active_calls)
          => ~FinalSpeechPending(Head(ready).call_id)
     /\ \A task \in Suspended :
          (handler_hangup(task) /\ task.call_id \in active_calls)
          => task.pc = "sleep"]_vars

\* C18: a live session that was asked for its PNR and waits at flight_status
\* stays at flight_status for as long as it is live.
C18_SlotCollectionKeepsMenu ==
  [][\A i \in active_calls \cap active_calls' :
       (/\ heap[i].current_menu = "flight_status"
        /\ heap[i].last_nlu.intent = "flight_status")
       => heap'[i].current_menu = "flight_status"]_vars

\* a caller who is asked for the PNR by key press and then speaks of something else
LeaveDigits == {"0", "1", "2"}
LeaveTranscripts == {TBook}

LeaveNext ==
  \/ Request(MaxLeaveRequests) /\ \E i \in CallIds, c \in Callers : start_call(i, c)
  \/ Request(MaxLeaveRequests) /\ \E i \in CallIds, d \in LeaveDigits : dtmf_endpoint(i, d)
  \/ Request(MaxLeaveRequests) /\ \E i \in CallIds, t \in LeaveTranscripts : simulate_speech(i, t)
  \/ \E task \in Suspended : handler_after_tts(task)

LeaveSpec == Init /\ [][LeaveNext]_vars

\* transcripts delivered by the speech provider's webhook while calls start and
\* end.  The event loop is fair to its tasks: a created task is started, and a
\* sleep comes to its end (at most 3 s for a playback, 0.3 s before a hangup).
HookNext ==
  \/ Request(MaxHookRequests) /\ \E i \in CallIds, c \in Callers : start_call(i, c)
  \/ Request(MaxHookRequests) /\ \E i \in CallIds : end_call(i)
  \/ Request(MaxHookRequests) /\ \E payload \in Payloads : stt_callback(payload)
  \/ handler_start
  \/ \E task \in Suspended : handler_after_tts(task)
  \/ \E task \in Suspended : handler_hangup(task)

HookSpec ==
  /\ Init
  /\ [][HookNext]_vars
  /\ WF_vars(handler_start)
  /\ WF_vars(\E task \in Suspended : handler_after_tts(task))
  /\ WF_vars(\E task \in Suspended : handler_hangup(task))

\* a handler for transcript t on call i has been created or is suspended
HandlerPending(i, t) ==
  \/ \E k \in 1..Len(ready) : ready[k] = HandlerTask(i, t)
  \/ \E task \in Suspended :
       /\ task.kind = "handle_transcribed_text"
       /\ task.call_id = i
       /\ task.transcript = t

\* the webhook has just acknowledged a transcript for call i
Accepted(i) ==
  outcome = Reply("stt_callback", i, 200, "accepted", "")

\* a handler for call i has just returned its result or raised its ValueError
Handled(i) ==
  /\ outcome.endpoint = "handle_transcribed_text"
  /\ outcome.call_id = i
  /\ outcome.code \in {200, 500}

\* C19: after the webhook acknowledged a transcript for a call, a handler for
\* that call eventually returns or fails with the unknown-call error, and
\* every handler that is pending eventually is pending no more.
C19_AcceptedIsHandled ==
  /\ \A i \in CallIds : Accepted(i) ~> Handled(i)
  /\ \A i \in CallIds, t \in WebhookTranscripts :
       HandlerPending(i, t) ~> ~HandlerPending(i, t)

\* the call was ended while an accepted transcript waited, and its handler failed
C19_Witness ==
  /\ outcome = Reply("handle_transcribed_text", outcome.call_id, 500,
                     "ValueError", "Unknown call_id")
  /\ call_history = <<outcome.call_id>>

\* C20: a live session that is not at flight_status has an empty pnr_buffer.
C20_BufferOnlyInCollection ==
  \A i \in active_calls :
    heap[i].current_menu # "flight_status" => heap[i].pnr_buffer = ""

\* C21: a key press that the catalog maps at the session's current menu takes
\* the mapped transition: a goto_menu option moves the active session to its
\* target, a transfer_agent option sets it transferring ("0" at flight_status
\* leads back to main).
C21_MappedDigitTakesTransition ==
  [][\A i \in active_calls, d \in Digits :
       (/\ outcome'.endpoint = "dtmf_endpoint"
        /\ heap[i].status = "active"
        /\ d \in DOMAIN menu_options(heap[i].current_menu)
        /\ dtmf_endpoint(i, d))
       => LET opt == menu_options(heap[i].current_menu)[d] IN
            /\ opt.action = "goto_menu" => heap'[i].current_menu = opt.target
            /\ opt.action = "transfer_agent" => heap'[i].status = "transferring"]_vars


====
